---- MODULE Spec2Model ----
(***************************************************************************)
(* A model of batch_trim_three_cams.py: the frame-rate prober              *)
(* (get_video_fps), the clip extractor (run_ffmpeg_command) and the batch  *)
(* driver (process_batch).                                                 *)
(*                                                                         *)
(* Text is modelled as a sequence of symbols (single characters, and a few *)
(* fixed tokens such as "FRAME_TRIM_"), so that str.strip, str.split,      *)
(* str.rsplit, int() and float() are computed as Python computes them.     *)
(* A float is modelled as an exact fraction [ok, n, d] in lowest terms     *)
(* with d > 0; ok = FALSE stands for None.                                 *)
(***************************************************************************)
EXTENDS Integers, Sequences, FiniteSets, TLC

VARIABLES
    \* ---- environment of one run of process_batch
    dirExists,      \* os.path.exists(OUTPUT_FOLDER)
    manifest,       \* "missing" | "empty" | "ok": state of INPUT_CSV_FILE
    nrows,          \* number of data rows after the header
    \* ---- process_batch
    pc,             \* position in process_batch
    rowsRead,       \* the data rows the csv reader has yielded so far
    row,            \* current row
    cam_in,         \* cam1_in, cam2_in, cam3_in
    input_path,     \* input_path_1..3
    fps,            \* fps_1..3
    i,              \* column index of the pair loop (0-based, as in Python)
    trim_index,
    start_frame,
    frame_count,
    cam,            \* which of the three "Trim Camera" blocks is next
    caught,         \* the exception that ended the try block ("none" if none)
    \* ---- observable effects
    calls,          \* run_ffmpeg_command invocations, in order
    probes,         \* get_video_fps invocations of the run, in order
    ffmpeg_result,  \* outcome of the latest subprocess.run of ffmpeg
    \* ---- one call of get_video_fps on its own
    probeOut,       \* what ffprobe gave
    fpsPc,
    fpsResult

vars == <<dirExists, manifest, nrows, pc, rowsRead, row, cam_in, input_path, fps,
          i, trim_index, start_frame, frame_count, cam, caught, calls, probes,
          ffmpeg_result, probeOut, fpsPc, fpsResult>>

driverVars == <<dirExists, manifest, nrows, pc, rowsRead, row, cam_in, input_path,
                fps, i, trim_index, start_frame, frame_count, cam, caught, calls,
                probes, ffmpeg_result>>

proberVars == <<probeOut, fpsPc, fpsResult>>

--------------------------------------------------------------------------
\* Bounds of the model.

\* Data rows in the manifest.
MaxRows == 2

\* Length of the generated avg_frame_rate texts.
MaxFracLen == 3

--------------------------------------------------------------------------
\* Text.

SeqsUpTo(S, n) == UNION {[1..k -> S] : k \in 0..n}

Digits == {"0", "1", "2", "3", "4", "5", "6", "7", "8", "9"}

DigitVal(c) ==
    CASE c = "0" -> 0 [] c = "1" -> 1 [] c = "2" -> 2 [] c = "3" -> 3
      [] c = "4" -> 4 [] c = "5" -> 5 [] c = "6" -> 6 [] c = "7" -> 7
      [] c = "8" -> 8 [] c = "9" -> 9

RECURSIVE DigitsVal(_)
DigitsVal(s) ==
    IF s = <<>> THEN 0
    ELSE 10 * DigitsVal(SubSeq(s, 1, Len(s) - 1)) + DigitVal(s[Len(s)])

AllDigits(s) == s # <<>> /\ \A k \in 1..Len(s) : s[k] \in Digits

\* str.strip(): leading and trailing blanks removed.
RECURSIVE LStrip(_)
LStrip(s) == IF s # <<>> /\ s[1] = " " THEN LStrip(Tail(s)) ELSE s

RECURSIVE RStrip(_)
RStrip(s) ==
    IF s # <<>> /\ s[Len(s)] = " " THEN RStrip(SubSeq(s, 1, Len(s) - 1)) ELSE s

Strip(s) == RStrip(LStrip(s))

\* int(text) and float(text) on text over digits, "-", "/", "x", "." and " ":
\* blanks around the number are accepted, then an optional sign and one or
\* more digits; anything else raises ValueError (ok = FALSE).
ParseNum(text) ==
    LET s == Strip(text)
        body == IF s # <<>> /\ s[1] = "-" THEN Tail(s) ELSE s
        neg == s # <<>> /\ s[1] = "-"
    IN IF AllDigits(body)
       THEN [ok |-> TRUE, val |-> IF neg THEN 0 - DigitsVal(body) ELSE DigitsVal(body)]
       ELSE [ok |-> FALSE, val |-> 0]

--------------------------------------------------------------------------
\* Floats as exact fractions.

NoneV == [ok |-> FALSE, n |-> 0, d |-> 1]

Abs(x) == IF x < 0 THEN 0 - x ELSE x

RECURSIVE Gcd(_, _)
Gcd(a, b) == IF b = 0 THEN a ELSE Gcd(b, a % b)

\* a / b for b # 0
Frac(a, b) ==
    LET g == Gcd(Abs(a), Abs(b))
        sgn == IF b < 0 THEN 0 - 1 ELSE 1
    IN [ok |-> TRUE, n |-> (sgn * a) \div g, d |-> Abs(b) \div g]

Positive(v) == v.ok /\ v.n > 0

--------------------------------------------------------------------------
\* get_video_fps.

\* A value of the ffprobe JSON: a missing key, a string or a number.
JAbsent == [t |-> "absent", s |-> <<>>, n |-> 0]
JStr(s) == [t |-> "str", s |-> s, n |-> 0]
JInt(n) == [t |-> "int", s |-> <<>>, n |-> n]

\* Python truthiness of such a value
Truthy(v) ==
    CASE v.t = "absent" -> FALSE
      [] v.t = "str" -> v.s # <<>>
      [] v.t = "int" -> v.n # 0

\* float(v); ok = FALSE when it raises
ToFloat(v) ==
    CASE v.t = "str" -> ParseNum(v.s)
      [] v.t = "int" -> [ok |-> TRUE, val |-> v.n]
      [] v.t = "absent" -> [ok |-> FALSE, val |-> 0]

SlashAt(s) == {k \in 1..Len(s) : s[k] = "/"}

parse_frac(frac_str) ==
    IF ~Truthy(frac_str) \/ frac_str = JStr(<<"0", "/", "0">>) THEN NoneV
    ELSE IF frac_str.t # "str" THEN NoneV          \* '/' in <number>: TypeError
    ELSE IF SlashAt(frac_str.s) # {}
    THEN IF Cardinality(SlashAt(frac_str.s)) # 1 THEN NoneV   \* unpacking fails
         ELSE LET k == CHOOSE k \in SlashAt(frac_str.s) : TRUE
                  num == ParseNum(SubSeq(frac_str.s, 1, k - 1))
                  den == ParseNum(SubSeq(frac_str.s, k + 1, Len(frac_str.s)))
              IN IF ~num.ok \/ ~den.ok THEN NoneV             \* ValueError
                 ELSE IF den.val = 0 THEN NoneV               \* ZeroDivisionError
                 ELSE Frac(num.val, den.val)
    ELSE LET x == ParseNum(frac_str.s)
         IN IF x.ok THEN Frac(x.val, 1) ELSE NoneV

\* lines 54-62: the nb_frames / duration fallback
FpsFromFrames(stream) ==
    LET nb_frames == stream.nb_frames
        duration == IF Truthy(stream.duration) THEN stream.duration
                    ELSE stream.duration_ts
    IN IF Truthy(nb_frames) /\ Truthy(duration)
       THEN LET a == ToFloat(nb_frames)
                b == ToFloat(duration)
            IN IF ~a.ok \/ ~b.ok THEN NoneV
               ELSE IF b.val = 0 THEN NoneV
               ELSE IF Positive(Frac(a.val, b.val)) THEN Frac(a.val, b.val)
               ELSE NoneV
       ELSE NoneV

\* lines 47-51: one turn of the loop over ('avg_frame_rate', 'r_frame_rate')
RateField(v) ==
    IF v.t = "absent" THEN NoneV
    ELSE IF Positive(parse_frac(v)) THEN parse_frac(v) ELSE NoneV

get_video_fps(out) ==
    IF out.kind # "stream" THEN NoneV
    ELSE IF RateField(out.avg_frame_rate).ok THEN RateField(out.avg_frame_rate)
    ELSE IF RateField(out.r_frame_rate).ok THEN RateField(out.r_frame_rate)
    ELSE FpsFromFrames(out)

\* What ffprobe can give: it fails, prints no JSON, reports no video stream,
\* or reports the first video stream.
NoStream(kind) ==
    [kind |-> kind, avg_frame_rate |-> JAbsent, r_frame_rate |-> JAbsent,
     nb_frames |-> JAbsent, duration |-> JAbsent, duration_ts |-> JAbsent]

Stream(avg, r, nb, dur, ts) ==
    [kind |-> "stream", avg_frame_rate |-> avg, r_frame_rate |-> r,
     nb_frames |-> nb, duration |-> dur, duration_ts |-> ts]

AvgTexts ==
    SeqsUpTo({"0", "3", "/"}, MaxFracLen)
        \cup {<<"-", "3">>, <<"x">>, <<"3", "0", "/", "1">>, <<"3", "/", "-", "3">>}

RTexts == {<<"0", "/", "0">>, <<"6", "0", "/", "1">>, <<"2", "5">>, <<"6", "/", "0">>}

NbTexts == {<<>>, <<"0">>, <<"3", "0", "0">>, <<"x">>}

DurTexts == {<<>>, <<"0">>, <<"1", "0">>, <<"-", "4">>}

ProbeOutputs ==
    {NoStream(k) : k \in {"CalledProcessError", "JSONDecodeError", "nostreams"}}
        \cup {Stream(avg, r, nb, dur, ts) :
                avg \in {JAbsent} \cup {JStr(s) : s \in AvgTexts},
                r \in {JAbsent} \cup {JStr(s) : s \in RTexts},
                nb \in {JAbsent} \cup {JStr(s) : s \in NbTexts},
                dur \in {JAbsent} \cup {JStr(s) : s \in DurTexts},
                ts \in {JAbsent, JInt(0), JInt(100)}}

\* One call of get_video_fps.
ProbeCall ==
    /\ fpsPc = "call"
    /\ fpsResult' = get_video_fps(probeOut)
    /\ fpsPc' = "returned"
    /\ UNCHANGED <<probeOut, driverVars>>

--------------------------------------------------------------------------
\* The environment of the batch driver.

\* What ffprobe reports for a file of the run.  The files of the model are
\* fixed: those named "w..." carry no usable frame rate, every other one
\* 30 frames a second.
ffprobe(input_file) ==
    IF "w" \in {input_file[k] : k \in 1..Len(input_file)}
    THEN Stream(JStr(<<"0", "/", "0">>), JStr(<<"0", "/", "0">>), JAbsent, JAbsent, JAbsent)
    ELSE Stream(JStr(<<"3", "0", "/", "1">>), JAbsent, JAbsent, JAbsent, JAbsent)

\* How subprocess.run(ffmpeg ..., check=True) can end: it returns, ffmpeg
\* exits non-zero, the executable is missing, or it cannot be executed.
FfmpegOutcomes == {"ok", "CalledProcessError", "FileNotFoundError", "PermissionError"}

\* The rows a manifest is made of: camera file names and frame columns.
NameV == <<"v", ".", "m">>
NameW == <<"w", ".", "m">>
NameU == <<" ", "u", ".", "m", " ">>
NameNoExt == <<"w">>
NameDots == <<"v", ".", "t", ".", "m">>

NameTriples ==
    {<<NameV, NameW, NameU>>, <<NameV, NameV, NameU>>,
     <<NameV, NameNoExt, NameU>>, <<NameDots, NameW, NameU>>}

OnePair == <<<<"2">>, <<"3">>>>
TwoPairs == <<<<"2">>, <<"3">>, <<"5">>, <<"1">>>>

FrameLists ==
    {OnePair, TwoPairs,
     <<<<"2">>>>,                                           \* 7 columns
     <<<<"2">>, <<"3">>, <<"4">>>>,                         \* a leftover column
     <<<<>>, <<>>, <<"2">>, <<"3">>>>,                      \* an empty pair first
     <<<<"x">>, <<"3">>, <<"2">>, <<"3">>>>,                \* a non-integer pair first
     <<<<"-", "2">>, <<"3">>>>,                             \* negative start
     <<<<"4">>, <<"-", "1">>>>,                             \* negative count
     <<<<" ", "2", " ">>, <<"1", ".", "5">>, <<"7">>, <<" ", "3">>>>,
     <<<<"2">>, <<"3">>, <<" ">>, <<"1">>, <<"4">>, <<"1">>>>}  \* a half-empty pair in the middle

MkRow(names, frames) ==
    <<<<"c1/">>, names[1], <<" ", "c2/">>, names[2], <<"c3/">>, names[3]>> \o frames

Rows ==
    {MkRow(<<NameV, NameW, NameU>>, f) : f \in FrameLists}
        \cup {MkRow(t, TwoPairs) : t \in NameTriples}
        \cup {MkRow(<<NameV, NameNoExt, NameU>>, OnePair)}
        \cup {<<>>, <<<<>>, <<" ">>, <<>>, <<>>, <<>>, <<>>, <<>>, <<>>>>}

--------------------------------------------------------------------------
\* run_ffmpeg_command.

OUTPUT_FOLDER == <<"OUT/">>

\* lines 85-89: the frame rate the extractor works with
ResolveFps(input_file, f) ==
    IF f.ok THEN f
    ELSE IF get_video_fps(ffprobe(input_file)).ok THEN get_video_fps(ffprobe(input_file))
    ELSE Frac(30, 1)

\* lines 92-117: int(), the time window and the arguments given to ffmpeg
\* (ss is start_time before it is printed with six decimals)
FfmpegCommand(input_file, sf, fc, output_file, f) ==
    [input_file |-> input_file,
     start_frame |-> sf,
     frame_count |-> fc,
     fps |-> ResolveFps(input_file, f),
     ss |-> Frac(sf * ResolveFps(input_file, f).d, ResolveFps(input_file, f).n),
     duration |-> Frac(fc * ResolveFps(input_file, f).d, ResolveFps(input_file, f).n),
     output_file |-> output_file]

\* The extractor without its handler for a non-zero exit of ffmpeg
ExtractorCatchesOnlyMissingTool(e) == e \in {"FileNotFoundError"}

\* lines 124-132: the exceptions of subprocess.run the extractor handles
ExtractorCatches(e) == e \in {"CalledProcessError", "FileNotFoundError"}

--------------------------------------------------------------------------
\* process_batch.

\* row[k] of Python
Col(r, k) == r[k + 1]

\* line 161
IsBlankRow(r) == r = <<>> \/ \A k \in 1..Len(r) : Strip(r[k]) = <<>>

\* The column check with an off-by-one limit
TooShortBelowSeven(r) == Len(r) < 7

\* line 165
TooShort(r) == Len(r) < 8

\* The pair loop starting one pair too late
FirstPairColSkipsOne == 6 + 2

\* line 190: range(6, len(row), 2)
FirstPairCol == 6

\* line 191
IncompletePair(r, k) == k + 1 >= Len(r)

\* line 198
EmptyPair(r, k) == Strip(Col(r, k)) = <<>> \/ Strip(Col(r, k + 1)) = <<>>

\* lines 201-206
InvalidPair(r, k) == ~ParseNum(Strip(Col(r, k))).ok \/ ~ParseNum(Strip(Col(r, k + 1))).ok

\* The trim-set counter never advanced
NextTrimIndexStuck(k) == k

\* line 243
NextTrimIndex(k) == k + 1

\* str.rsplit('.', 1): the text before and after the last ".", or the text
\* alone when it holds none
DotsAt(s) == {k \in 1..Len(s) : s[k] = "."}

RSplitDot(s) ==
    IF DotsAt(s) = {} THEN <<s>>
    ELSE LET k == CHOOSE k \in DotsAt(s) : \A j \in DotsAt(s) : j <= k
         IN <<SubSeq(s, 1, k - 1), SubSeq(s, k + 1, Len(s))>>

\* lines 213-218: the output name; ok = FALSE when name_parts[1] raises IndexError
output_name(name_in, k) ==
    IF k = 1 THEN [ok |-> TRUE, name |-> <<"FRAME_TRIM_">> \o name_in]
    ELSE LET name_parts == RSplitDot(name_in)
         IN IF Len(name_parts) < 2 THEN [ok |-> FALSE, name |-> <<>>]
            ELSE [ok |-> TRUE,
                  name |-> <<"FRAME_TRIM_">> \o name_parts[1] \o <<"_clip", ToString(k), ".">>
                             \o name_parts[2]]

\* line 220: os.path.join(OUTPUT_FOLDER, name); the name never starts with "/"
output_path(name) == OUTPUT_FOLDER \o name

\* enumerate(reader, start=2)
row_num == Len(rowsRead) + 1

Init ==
    /\ dirExists \in BOOLEAN
    /\ manifest \in {"missing", "empty", "ok"}
    /\ nrows \in 0..MaxRows
    /\ manifest # "ok" => nrows = 0
    /\ pc = "makedirs"
    /\ rowsRead = <<>>
    /\ row = <<>>
    /\ cam_in = <<<<>>, <<>>, <<>>>>
    /\ input_path = <<<<>>, <<>>, <<>>>>
    /\ fps = <<NoneV, NoneV, NoneV>>
    /\ i = 0
    /\ trim_index = 0
    /\ start_frame = 0
    /\ frame_count = 0
    /\ cam = 0
    /\ caught = "none"
    /\ calls = <<>>
    /\ probes = <<>>
    /\ ffmpeg_result = "none"
    /\ probeOut = NoStream("nostreams")
    /\ fpsPc = "idle"
    /\ fpsResult = NoneV

\* lines 147-149: the directory exists, or os.makedirs creates it
EnsureOutputDir ==
    /\ pc = "makedirs"
    /\ dirExists' = TRUE
    /\ pc' = "open"
    /\ UNCHANGED <<manifest, nrows, rowsRead, row, cam_in, input_path, fps, i,
                   trim_index, start_frame, frame_count, cam, caught, calls, probes,
                   ffmpeg_result, proberVars>>

\* line 148: os.makedirs raises (no permission, a file in the way); the call
\* stands before the try block
MakeDirsRaises ==
    /\ pc = "makedirs"
    /\ ~dirExists
    /\ pc' = "raised"
    /\ UNCHANGED <<dirExists, manifest, nrows, rowsRead, row, cam_in, input_path, fps,
                   i, trim_index, start_frame, frame_count, cam, caught, calls, probes,
                   ffmpeg_result, proberVars>>

\* line 152, and the handler of line 247
OpenManifest ==
    /\ pc = "open"
    /\ IF manifest = "missing"
       THEN caught' = "FileNotFoundError" /\ pc' = "done"
       ELSE caught' = caught /\ pc' = "header"
    /\ UNCHANGED <<dirExists, manifest, nrows, rowsRead, row, cam_in, input_path, fps,
                   i, trim_index, start_frame, frame_count, cam, calls, probes,
                   ffmpeg_result, proberVars>>

\* line 156: next(reader); StopIteration on an empty file, handled at line 249
ReadHeader ==
    /\ pc = "header"
    /\ IF manifest = "empty"
       THEN caught' = "StopIteration" /\ pc' = "done"
       ELSE caught' = caught /\ pc' = "loop"
    /\ UNCHANGED <<dirExists, manifest, nrows, rowsRead, row, cam_in, input_path, fps,
                   i, trim_index, start_frame, frame_count, cam, calls, probes,
                   ffmpeg_result, proberVars>>

\* line 160: the reader yields the next data row
NextRow ==
    /\ pc = "loop"
    /\ Len(rowsRead) < nrows
    /\ \E r \in Rows :
         /\ row' = r
         /\ rowsRead' = Append(rowsRead, r)
    /\ pc' = "check"
    /\ UNCHANGED <<dirExists, manifest, nrows, cam_in, input_path, fps, i, trim_index,
                   start_frame, frame_count, cam, caught, calls, probes, ffmpeg_result,
                   proberVars>>

\* line 160: the reader is exhausted; process_batch returns
EndOfFile ==
    /\ pc = "loop"
    /\ Len(rowsRead) = nrows
    /\ pc' = "done"
    /\ UNCHANGED <<dirExists, manifest, nrows, rowsRead, row, cam_in, input_path, fps,
                   i, trim_index, start_frame, frame_count, cam, caught, calls, probes,
                   ffmpeg_result, proberVars>>

\* line 160: the reader raises on the next line of the file (csv.Error is
\* handled at line 249, UnicodeDecodeError, a ValueError, at line 245)
ReaderRaises ==
    /\ pc = "loop"
    /\ Len(rowsRead) < nrows
    /\ \E e \in {"csv.Error", "UnicodeDecodeError"} : caught' = e
    /\ pc' = "done"
    /\ UNCHANGED <<dirExists, manifest, nrows, rowsRead, row, cam_in, input_path, fps,
                   i, trim_index, start_frame, frame_count, cam, calls, probes,
                   ffmpeg_result, proberVars>>

\* lines 161-162
SkipBlankRow ==
    /\ pc = "check"
    /\ IsBlankRow(row)
    /\ pc' = "loop"
    /\ UNCHANGED <<dirExists, manifest, nrows, rowsRead, row, cam_in, input_path, fps,
                   i, trim_index, start_frame, frame_count, cam, caught, calls, probes,
                   ffmpeg_result, proberVars>>

\* lines 165-167
SkipShortRow ==
    /\ pc = "check"
    /\ ~IsBlankRow(row)
    /\ TooShort(row)
    /\ pc' = "loop"
    /\ UNCHANGED <<dirExists, manifest, nrows, rowsRead, row, cam_in, input_path, fps,
                   i, trim_index, start_frame, frame_count, cam, caught, calls, probes,
                   ffmpeg_result, proberVars>>

\* lines 170-190: names, paths, the three probes, the start of the pair loop
BeginRow ==
    /\ pc = "check"
    /\ ~IsBlankRow(row)
    /\ ~TooShort(row)
    /\ cam_in' = [c \in 1..3 |-> Strip(Col(row, 2 * c - 1))]
    /\ input_path' = [c \in 1..3 |-> Strip(Col(row, 2 * c - 2)) \o Strip(Col(row, 2 * c - 1))]
    /\ fps' = [c \in 1..3 |-> get_video_fps(ffprobe(input_path'[c]))]
    /\ probes' = probes \o [c \in 1..3 |->
                              [row_num |-> row_num, input_file |-> input_path'[c],
                               by |-> "process_batch"]]
    /\ trim_index' = 1
    /\ i' = FirstPairCol
    /\ pc' = "pair"
    /\ UNCHANGED <<dirExists, manifest, nrows, rowsRead, row, start_frame, frame_count,
                   cam, caught, calls, ffmpeg_result, proberVars>>

\* line 190: the range is exhausted
EndPairs ==
    /\ pc = "pair"
    /\ i >= Len(row)
    /\ pc' = "loop"
    /\ UNCHANGED <<dirExists, manifest, nrows, rowsRead, row, cam_in, input_path, fps,
                   i, trim_index, start_frame, frame_count, cam, caught, calls, probes,
                   ffmpeg_result, proberVars>>

\* lines 191-192
BreakIncompletePair ==
    /\ pc = "pair"
    /\ i < Len(row)
    /\ IncompletePair(row, i)
    /\ pc' = "loop"
    /\ UNCHANGED <<dirExists, manifest, nrows, rowsRead, row, cam_in, input_path, fps,
                   i, trim_index, start_frame, frame_count, cam, caught, calls, probes,
                   ffmpeg_result, proberVars>>

\* lines 194-199
SkipEmptyPair ==
    /\ pc = "pair"
    /\ i < Len(row)
    /\ ~IncompletePair(row, i)
    /\ EmptyPair(row, i)
    /\ i' = i + 2
    /\ UNCHANGED <<dirExists, manifest, nrows, pc, rowsRead, row, cam_in, input_path,
                   fps, trim_index, start_frame, frame_count, cam, caught, calls, probes,
                   ffmpeg_result, proberVars>>

\* lines 201-206; start_frame is assigned before int(frame_count_str) raises
SkipInvalidPair ==
    /\ pc = "pair"
    /\ i < Len(row)
    /\ ~IncompletePair(row, i)
    /\ ~EmptyPair(row, i)
    /\ InvalidPair(row, i)
    /\ start_frame' = IF ParseNum(Strip(Col(row, i))).ok
                      THEN ParseNum(Strip(Col(row, i))).val ELSE start_frame
    /\ i' = i + 2
    /\ UNCHANGED <<dirExists, manifest, nrows, pc, rowsRead, row, cam_in, input_path,
                   fps, trim_index, frame_count, cam, caught, calls, probes,
                   ffmpeg_result, proberVars>>

\* lines 201-210
BeginTrimSet ==
    /\ pc = "pair"
    /\ i < Len(row)
    /\ ~IncompletePair(row, i)
    /\ ~EmptyPair(row, i)
    /\ ~InvalidPair(row, i)
    /\ start_frame' = ParseNum(Strip(Col(row, i))).val
    /\ frame_count' = ParseNum(Strip(Col(row, i + 1))).val
    /\ cam' = 1
    /\ pc' = "cam"
    /\ UNCHANGED <<dirExists, manifest, nrows, rowsRead, row, cam_in, input_path, fps,
                   i, trim_index, caught, calls, probes, ffmpeg_result, proberVars>>

\* lines 217-218 (and 227-228, 237-238): name_parts[1] raises IndexError,
\* handled at line 249
NameRaises ==
    /\ pc = "cam"
    /\ ~output_name(cam_in[cam], trim_index).ok
    /\ caught' = "IndexError"
    /\ pc' = "done"
    /\ UNCHANGED <<dirExists, manifest, nrows, rowsRead, row, cam_in, input_path, fps,
                   i, trim_index, start_frame, frame_count, cam, calls, probes,
                   ffmpeg_result, proberVars>>

\* The invocation of run_ffmpeg_command for the camera at hand
Invocation ==
    [row_num |-> row_num, col |-> i, cam |-> cam, trim_index |-> trim_index]
        @@ FfmpegCommand(input_path[cam], start_frame, frame_count,
                         output_path(output_name(cam_in[cam], trim_index).name), fps[cam])

\* The probe run_ffmpeg_command makes when it was given no frame rate
ExtractorProbes ==
    IF fps[cam].ok THEN <<>>
    ELSE <<[row_num |-> row_num, input_file |-> input_path[cam],
            by |-> "run_ffmpeg_command"]>>

\* lines 212-243: one "Trim Camera" block whose run_ffmpeg_command returns
TrimCamera ==
    /\ pc = "cam"
    /\ output_name(cam_in[cam], trim_index).ok
    /\ \E o \in FfmpegOutcomes :
         /\ o = "ok" \/ ExtractorCatches(o)
         /\ ffmpeg_result' = o
    /\ calls' = Append(calls, Invocation)
    /\ probes' = probes \o ExtractorProbes
    /\ IF cam < 3
       THEN /\ cam' = cam + 1
            /\ UNCHANGED <<pc, i, trim_index>>
       ELSE /\ trim_index' = NextTrimIndex(trim_index)
            /\ i' = i + 2
            /\ pc' = "pair"
            /\ cam' = cam
    /\ UNCHANGED <<dirExists, manifest, nrows, rowsRead, row, cam_in, input_path, fps,
                   start_frame, frame_count, caught, proberVars>>

\* lines 124-132 and 249: subprocess.run raises what run_ffmpeg_command does
\* not handle; the exception ends the batch in the handler of line 249
TrimCameraRaises ==
    /\ pc = "cam"
    /\ output_name(cam_in[cam], trim_index).ok
    /\ \E o \in FfmpegOutcomes :
         /\ o # "ok" /\ ~ExtractorCatches(o)
         /\ ffmpeg_result' = o
         /\ caught' = o
    /\ calls' = Append(calls, Invocation)
    /\ probes' = probes \o ExtractorProbes
    /\ pc' = "done"
    /\ UNCHANGED <<dirExists, manifest, nrows, rowsRead, row, cam_in, input_path, fps,
                   i, trim_index, start_frame, frame_count, cam, proberVars>>

Next ==
    \/ EnsureOutputDir
    \/ MakeDirsRaises
    \/ OpenManifest
    \/ ReadHeader
    \/ NextRow
    \/ EndOfFile
    \/ ReaderRaises
    \/ SkipBlankRow
    \/ SkipShortRow
    \/ BeginRow
    \/ EndPairs
    \/ BreakIncompletePair
    \/ SkipEmptyPair
    \/ SkipInvalidPair
    \/ BeginTrimSet
    \/ NameRaises
    \/ TrimCamera
    \/ TrimCameraRaises

Spec == Init /\ [][Next]_vars

\* get_video_fps on its own, for every output of ffprobe
InitFps ==
    /\ probeOut \in ProbeOutputs
    /\ fpsPc = "call"
    /\ fpsResult = NoneV
    /\ dirExists = TRUE
    /\ manifest = "missing"
    /\ nrows = 0
    /\ pc = "idle"
    /\ rowsRead = <<>>
    /\ row = <<>>
    /\ cam_in = <<<<>>, <<>>, <<>>>>
    /\ input_path = <<<<>>, <<>>, <<>>>>
    /\ fps = <<NoneV, NoneV, NoneV>>
    /\ i = 0
    /\ trim_index = 0
    /\ start_frame = 0
    /\ frame_count = 0
    /\ cam = 0
    /\ caught = "none"
    /\ calls = <<>>
    /\ probes = <<>>
    /\ ffmpeg_result = "none"

NextFps == ProbeCall

SpecFps == InitFps /\ [][NextFps]_vars

--------------------------------------------------------------------------
\* Properties.

\* Exceptions that come from the environment and not from a row of the manifest
EnvFaults == {"csv.Error", "UnicodeDecodeError", "PermissionError"}

\* A cell holds an integer: int() of its stripped text does not raise
CellIsInt(c) == ParseNum(Strip(c)).ok

\* The pair at Python columns k, k+1 of row r is complete and both cells are integers
ValidPairAt(r, k) == k + 1 < Len(r) /\ CellIsInt(r[k + 1]) /\ CellIsInt(r[k + 2])

\* Columns 6, 8, ... of a row
PairColsOf(r) == {k \in 6..Len(r) : (k - 6) % 2 = 0}

RowIsBlank(r) == \A k \in 1..Len(r) : \A j \in 1..Len(r[k]) : r[k][j] = " "

HasExtension(cell) == \E j \in 1..Len(cell) : cell[j] = "."

WellFormedRow(r) ==
    /\ Len(r) >= 8
    /\ ~RowIsBlank(r)
    /\ \A c \in {2, 4, 6} : HasExtension(r[c])

CallKey(c) == [row_num |-> c.row_num, col |-> c.col, cam |-> c.cam]

CallKeys == [n \in 1..Len(calls) |-> CallKey(calls[n])]

RECURSIVE ExpectedFrom(_, _, _)
ExpectedFrom(r, rn, k) ==
    IF k + 1 >= Len(r) THEN <<>>
    ELSE (IF ValidPairAt(r, k)
          THEN [c \in 1..3 |-> [row_num |-> rn, col |-> k, cam |-> c]]
          ELSE <<>>) \o ExpectedFrom(r, rn, k + 2)

ExpectedOfRow(r, rn) ==
    IF Len(r) < 8 \/ RowIsBlank(r) THEN <<>> ELSE ExpectedFrom(r, rn, 6)

RECURSIVE ExpectedCalls(_, _)
ExpectedCalls(rows, n) ==
    IF n = 0 THEN <<>>
    ELSE ExpectedCalls(rows, n - 1) \o ExpectedOfRow(rows[n], n + 1)

RECURSIVE NumTrimSets(_, _)
NumTrimSets(rows, n) ==
    IF n = 0 THEN 0
    ELSE NumTrimSets(rows, n - 1)
           + (IF Len(rows[n]) < 8 \/ RowIsBlank(rows[n]) THEN 0
              ELSE Cardinality({k \in PairColsOf(rows[n]) : ValidPairAt(rows[n], k)}))

IsPrefix(a, b) == Len(a) <= Len(b) /\ a = SubSeq(b, 1, Len(a))

\* C1: process_batch never aborts the batch because of a row: when it returns
\* from a manifest it could open and read, with no fault of the environment
\* (the reader or the extractor raising), every data row has been attempted.
C1_EveryRowAttempted ==
    (pc = "done" /\ manifest = "ok" /\ caught \notin EnvFaults)
        => Len(rowsRead) = nrows

\* C2: a non-zero exit of ffmpeg, or a missing executable, does not raise and
\* does not change what process_batch does next: after such an invocation for
\* camera 1 or 2 the next camera of the same trim set is up, after camera 3 the
\* pair loop goes on with the next pair, the batch only returns without an
\* exception once every row was read, and no (row, pair, camera) is invoked twice.
C2_FailureDoesNotStopBatch ==
    /\ [][(pc = "cam" /\ Len(calls') = Len(calls) + 1
              /\ ffmpeg_result' \in {"CalledProcessError", "FileNotFoundError"})
            => /\ caught' = "none"
               /\ rowsRead' = rowsRead
               /\ IF cam < 3
                  THEN pc' = "cam" /\ cam' = cam + 1 /\ i' = i /\ trim_index' = trim_index
                  ELSE pc' = "pair" /\ i' = i + 2]_vars
    /\ [](\A a, b \in 1..Len(calls) : CallKey(calls[a]) = CallKey(calls[b]) => a = b)
    /\ []((pc = "done" /\ manifest = "ok" /\ caught = "none") => Len(rowsRead) = nrows)

\* Camera 2's clip has just failed and camera 3's clip of the same trim set is next
C2_Witness ==
    /\ pc = "cam"
    /\ cam = 3
    /\ ffmpeg_result = "CalledProcessError"
    /\ calls # <<>>
    /\ calls[Len(calls)].cam = 2
    /\ calls[Len(calls)].row_num = row_num
    /\ calls[Len(calls)].col = i

\* C3: for a manifest of well-formed rows (8 or more columns, camera files with
\* an extension) the invocations are exactly three per valid trim set, rows in
\* file order, trim sets in column order, cameras 1, 2, 3; a leftover single
\* column gives none.  While the batch runs the invocations are a prefix of
\* that sequence.
C3_ThreeCallsPerTrimSetInOrder ==
    (manifest = "ok" /\ \A n \in 1..Len(rowsRead) : WellFormedRow(rowsRead[n]))
        => /\ IsPrefix(CallKeys, ExpectedCalls(rowsRead, Len(rowsRead)))
           /\ (pc = "done" /\ caught \notin EnvFaults)
                 => /\ Len(rowsRead) = nrows
                    /\ CallKeys = ExpectedCalls(rowsRead, Len(rowsRead))
                    /\ Len(calls) = 3 * NumTrimSets(rowsRead, Len(rowsRead))

\* A row with one trim set followed by a row with two: nine invocations
C3_Witness ==
    /\ pc = "done"
    /\ caught = "none"
    /\ rowsRead = <<MkRow(<<NameV, NameW, NameU>>, OnePair),
                    MkRow(<<NameDots, NameW, NameU>>, TwoPairs)>>
    /\ Len(calls) = 9
    /\ [n \in 1..9 |-> calls[n].cam] = <<1, 2, 3, 1, 2, 3, 1, 2, 3>>
    /\ [n \in 1..9 |-> calls[n].row_num] = <<2, 2, 2, 3, 3, 3, 3, 3, 3>>

\* C4: a blank row or a row of fewer than 8 columns is skipped: the step that
\* follows reading it makes no invocation and no probe and returns to the row
\* loop, and no invocation or probe ever belongs to such a row.
C4_ShortOrBlankRowSkipped ==
    /\ [][(pc = "check" /\ (Len(row) < 8 \/ RowIsBlank(row)))
            => (calls' = calls /\ probes' = probes /\ pc' = "loop"
                  /\ caught' = caught /\ rowsRead' = rowsRead)]_vars
    /\ [](\A n \in 1..Len(calls) :
             /\ Len(rowsRead[calls[n].row_num - 1]) >= 8
             /\ ~RowIsBlank(rowsRead[calls[n].row_num - 1]))
    /\ [](\A n \in 1..Len(probes) :
             /\ Len(rowsRead[probes[n].row_num - 1]) >= 8
             /\ ~RowIsBlank(rowsRead[probes[n].row_num - 1]))

\* The first row had 7 columns and was skipped; the row after it was probed
\* and trimmed
C4_Witness ==
    /\ Len(rowsRead) = 2
    /\ Len(rowsRead[1]) = 7
    /\ calls # <<>>
    /\ \A n \in 1..Len(calls) : calls[n].row_num = 3
    /\ \A n \in 1..Len(probes) : probes[n].row_num = 3

\* The name the naming rule gives: "FRAME_TRIM_" + filename for k = 1, and for
\* k >= 2 the suffix "_clip<k>" inserted before the extension
ClaimedName(f, k) ==
    LET dots == {j \in 1..Len(f) : f[j] = "."}
        cut == IF dots = {} THEN Len(f) + 1
               ELSE CHOOSE j \in dots : \A m \in dots : m <= j
    IN IF k = 1 THEN <<"FRAME_TRIM_">> \o f
       ELSE <<"FRAME_TRIM_">> \o SubSeq(f, 1, cut - 1) \o <<"_clip", ToString(k)>>
              \o SubSeq(f, cut, Len(f))

\* C5: for every camera filename and every trim index k >= 1 process_batch
\* derives the output name of the naming rule.
C5_OutputNameRule ==
    pc = "cam"
        => output_name(cam_in[cam], trim_index)
             = [ok |-> TRUE, name |-> ClaimedName(cam_in[cam], trim_index)]

\* C6: the trim index of an invocation is 1 plus the number of earlier pairs of
\* the same row that were complete, non-empty and integers; it restarts at 1 in
\* every row, and skipped pairs consume no number.
C6_TrimIndexCountsValidPairs ==
    /\ \A n \in 1..Len(calls) :
         LET r == rowsRead[calls[n].row_num - 1]
         IN calls[n].trim_index
              = 1 + Cardinality({k \in PairColsOf(r) : k < calls[n].col /\ ValidPairAt(r, k)})
    /\ pc \in {"pair", "cam"}
         => trim_index = 1 + Cardinality({k \in PairColsOf(row) : k < i /\ ValidPairAt(row, k)})

\* The pair after a non-integer pair got trim index 1, and the pair after a
\* valid and a half-empty pair got 2
C6_Witness ==
    /\ \E n \in 1..Len(calls) :
         /\ calls[n].col = 8 /\ calls[n].trim_index = 1
         /\ rowsRead[calls[n].row_num - 1][7] = <<"x">>
    /\ \E n \in 1..Len(calls) :
         /\ calls[n].col = 10 /\ calls[n].trim_index = 2
         /\ rowsRead[calls[n].row_num - 1][9] = <<" ">>

\* C7: in every clip request start_frame and frame_count are non-negative.
C7_FramesNonNegative ==
    \A n \in 1..Len(calls) : calls[n].start_frame >= 0 /\ calls[n].frame_count >= 0

\* The frame rate the cascade gives: the first usable of the average rate, the
\* real rate, then nb_frames / duration when both are present and duration is
\* nonzero; absence otherwise
ClaimedUsable(v) == IF v.t = "str" /\ Positive(parse_frac(v)) THEN parse_frac(v) ELSE NoneV

ClaimedFps(out) ==
    IF out.kind # "stream" THEN NoneV
    ELSE IF ClaimedUsable(out.avg_frame_rate).ok THEN ClaimedUsable(out.avg_frame_rate)
    ELSE IF ClaimedUsable(out.r_frame_rate).ok THEN ClaimedUsable(out.r_frame_rate)
    ELSE IF /\ out.nb_frames.t = "str" /\ out.duration.t = "str"
            /\ ParseNum(out.nb_frames.s).ok /\ ParseNum(out.duration.s).ok
            /\ ParseNum(out.duration.s).val # 0
            /\ Positive(Frac(ParseNum(out.nb_frames.s).val, ParseNum(out.duration.s).val))
    THEN Frac(ParseNum(out.nb_frames.s).val, ParseNum(out.duration.s).val)
    ELSE NoneV

\* C8: get_video_fps returns a positive value or absence, and the value is the
\* one the cascade average rate, real rate, nb_frames / duration gives.
C8_FpsCascade ==
    fpsPc = "returned"
        => /\ fpsResult.ok => fpsResult.n > 0
           /\ fpsResult = ClaimedFps(probeOut)

\* C9: no error escapes process_batch.
C9_NeverRaises == pc # "raised"

\* C10: no two invocations of a run are given the same output path.
C10_OutputPathsDistinct ==
    \A a, b \in 1..Len(calls) :
        calls[a].output_file = calls[b].output_file => a = b

====
